---- MODULE Spec2Model ----
(***************************************************************************)
(* A model of vastasanuli.py: the constraint inference, candidate filter,  *)
(* scorer and the play()/main() round loop of the Sanuli solver.           *)
(*                                                                         *)
(* A word is a sequence of one-letter strings.  Dictionary keys that are   *)
(* tile columns keep Python's 0-based numbering; the letter of a word at   *)
(* column x is word[x + 1].                                                *)
(***************************************************************************)
EXTENDS Naturals, Integers, Sequences, FiniteSets, TLC

(***************************************************************************)
(* Bounds of the model                                                     *)
(***************************************************************************)
\* number of rows of the game board
MaxRows == 3
\* number of entries of words_txt that are loaded
NumWords == 14
\* rows of a grid handed directly to infer_next_options
NumGridRows == 2
\* non-empty cells of such a grid
MaxFilled == 1
\* letters that occur in such a grid (a prefix of GridLetterOrder)
NumGridLetters == 1
\* letters of the words handed directly to score_word (a prefix of ScoreLetterOrder)
NumScoreLetters == 3

(***************************************************************************)
(* Module-level data of vastasanuli.py                                     *)
(***************************************************************************)
LETTER_COUNT_CHOICES == {5, 6}

sanuli_letters ==
    {"a","b","c","d","e","f","g","h","i","j","k","l","m","n","o","p","q",
     "r","s","t","u","v","w","x","y","z","å","ä","ö"}

\* the string the frequency table is enumerated from
fi_freq_letters ==
    <<"a","i","t","n","e","s","l","o","k","u","ä","m","v","r","j","h","y",
      "p","d","ö","g","b","f","c","w","å","q">>

\* fi_freq = {l: i for i, l in enumerate(...)}: 0-based rank of each letter
fi_freq ==
    [l \in {fi_freq_letters[i] : i \in DOMAIN fi_freq_letters} |->
        (CHOOSE i \in DOMAIN fi_freq_letters : fi_freq_letters[i] = l) - 1]

\* dict.get(key, default)
fi_freq_get(letter, default) ==
    IF letter \in DOMAIN fi_freq THEN fi_freq[letter] ELSE default

SetOf(word) == {word[i] : i \in DOMAIN word}

\* the lines of words.txt, stripped
words_txt ==
    <<
      <<"t","a","k","s","i">>,
      <<"k","i","s","s","a">>,
      <<"l","a","s","k","u","t">>,
      <<"k","i","s","s","a","t">>,
      <<"k","a","s","s","i">>,
      <<"p","i","z","z","a">>,
      <<"k","a","t","s","o">>,
      <<"t","a","k","s","i","t">>,
      <<"k","a","a","p","p","i">>,
      <<"t","a","l","o">>,
      <<"S","a","k","k","i">>,
      <<"c","a","f","é","t">>,
      <<"k","a","s","k","i">>,
      <<"a","s","k","i","t">>,
      <<"s","a","k","k","o">>,
      <<"k","a","t","s","o","a">>
    >>

\* str.lower() on the letters of the alphabet
upper_case ==
    <<"A","B","C","D","E","F","G","H","I","J","K","L","M","N","O","P","Q",
      "R","S","T","U","V","W","X","Y","Z","Å","Ä","Ö">>
lower_case ==
    <<"a","b","c","d","e","f","g","h","i","j","k","l","m","n","o","p","q",
      "r","s","t","u","v","w","x","y","z","å","ä","ö">>
lower_letter(c) ==
    IF \E i \in DOMAIN upper_case : upper_case[i] = c
    THEN lower_case[CHOOSE i \in DOMAIN upper_case : upper_case[i] = c]
    ELSE c
lower(word) == [i \in DOMAIN word |-> lower_letter(word[i])]

\* all_words: the loaded lines whose length is supported and whose letters
\* are all in sanuli_letters
all_words ==
    LET loaded == SubSeq(words_txt, 1, IF NumWords < Len(words_txt) THEN NumWords ELSE Len(words_txt))
        keep(w) == Len(w) \in LETTER_COUNT_CHOICES /\ SetOf(w) \subseteq sanuli_letters
        kept == SelectSeq(loaded, keep)
    IN  [i \in DOMAIN kept |-> lower(kept[i])]

(***************************************************************************)
(* Cell: a tile's text and its CSS classes                                 *)
(***************************************************************************)
Cell(content, classes) == [content |-> content, classes |-> classes]
empty(cell) == cell.content = ""
correct(cell) == "correct" \in cell.classes
present(cell) == "present" \in cell.classes
absent(cell) == "absent" \in cell.classes

RowEmpty(row) == \A x \in DOMAIN row : empty(row[x])

(***************************************************************************)
(* infer_next_options: the scan of the rows                                *)
(***************************************************************************)
NoConstraints ==
    [known_indexes |-> <<>>, present_letters |-> {},
     forbidden_letters |-> {}, known_unindexes |-> <<>>]

\* the body of the loop over the cells of a row, for the cell of column x
ScanCell(cell, x, acc) ==
    IF cell.content = "" THEN acc
    ELSE IF correct(cell) THEN
        [acc EXCEPT !.known_indexes = (x :> cell.content) @@ @]
    ELSE IF present(cell) THEN
        [acc EXCEPT !.present_letters = @ \cup {cell.content}]
    ELSE IF absent(cell) THEN
        [acc EXCEPT !.forbidden_letters = @ \cup {cell.content},
                    !.known_unindexes =
                        IF x \in DOMAIN @
                        THEN [@ EXCEPT ![x] = @ \cup {cell.content}]
                        ELSE (x :> {cell.content}) @@ @]
    ELSE acc

RECURSIVE ScanCells(_, _, _)
ScanCells(row, x, acc) ==
    IF x >= Len(row) THEN acc
    ELSE ScanCells(row, x + 1, ScanCell(row[x + 1], x, acc))

RECURSIVE ScanRows(_, _, _)
ScanRows(rows, y, acc) ==
    IF y >= Len(rows) THEN acc
    ELSE ScanRows(rows, y + 1,
                  IF RowEmpty(rows[y + 1]) THEN acc
                  ELSE ScanCells(rows[y + 1], 0, acc))

\* variant: only the present letters are taken out of the forbidden letters
Constraints_KeepKnown(rows) ==
    LET acc == ScanRows(rows, 0, NoConstraints)
    IN  [acc EXCEPT !.forbidden_letters = @ \ acc.present_letters]

\* variant: only the known values are taken out of the forbidden letters
Constraints_KeepPresent(rows) ==
    LET acc == ScanRows(rows, 0, NoConstraints)
        known_values == {acc.known_indexes[i] : i \in DOMAIN acc.known_indexes}
    IN  [acc EXCEPT !.forbidden_letters = @ \ known_values]

\* the constraints after "remove known good values from forbidden letters"
Constraints(rows) ==
    LET acc == ScanRows(rows, 0, NoConstraints)
        known_values == {acc.known_indexes[i] : i \in DOMAIN acc.known_indexes}
    IN  [acc EXCEPT !.forbidden_letters = (@ \ known_values) \ acc.present_letters]

\* "".join(c for (i, c) in sorted(known_indexes.items()))
RECURSIVE JoinSorted(_)
JoinSorted(d) ==
    IF DOMAIN d = {} THEN <<>>
    ELSE LET i == CHOOSE k \in DOMAIN d : \A j \in DOMAIN d : k <= j
         IN  <<d[i]>> \o JoinSorted([j \in DOMAIN d \ {i} |-> d[j]])

\* variant: the comparison never succeeds on a row of n_letters tiles
IsWin_Greater(c, n_letters) == Cardinality(DOMAIN c.known_indexes) > n_letters

\* if len(known_indexes) == n_letters
IsWin(c, n_letters) == Cardinality(DOMAIN c.known_indexes) = n_letters

\* variant: the per-column exclusions are not tested
Yields_NoUnindexes(word, c, n_letters) ==
    /\ ~(Len(word) # n_letters)
    /\ ~(/\ DOMAIN c.known_indexes # {}
         /\ ~(\A i \in DOMAIN c.known_indexes : word[i + 1] = c.known_indexes[i]))
    /\ LET wset == SetOf(word)
       IN  /\ ~(wset \cap c.forbidden_letters # {})
           /\ ~(c.present_letters \ wset # {})

\* the tests of the loop over all_words; TRUE when the word is yielded
Yields(word, c, n_letters) ==
    /\ ~(Len(word) # n_letters)
    /\ ~(/\ DOMAIN c.known_indexes # {}
         /\ ~(\A i \in DOMAIN c.known_indexes : word[i + 1] = c.known_indexes[i]))
    /\ ~(/\ DOMAIN c.known_unindexes # {}
         /\ \E i \in DOMAIN c.known_unindexes : word[i + 1] \in c.known_unindexes[i])
    /\ LET wset == SetOf(word)
       IN  /\ ~(wset \cap c.forbidden_letters # {})
           /\ ~(c.present_letters \ wset # {})

\* infer_next_options, run to exhaustion: either Win(word) is raised before
\* anything is yielded, or the words are yielded in corpus order
infer_next_options(rows, n_letters) ==
    LET c == Constraints(rows)
        yielded(word) == Yields(word, c, n_letters)
    IN  IF IsWin(c, n_letters)
        THEN [raised |-> "Win", arg |-> JoinSorted(c.known_indexes), words |-> <<>>,
              locals |-> c]
        ELSE [raised |-> "", arg |-> <<>>, words |-> SelectSeq(all_words, yielded),
              locals |-> c]

(***************************************************************************)
(* score_word and get_start_words                                          *)
(***************************************************************************)
RECURSIVE SumRanks(_, _)
SumRanks(word, default) ==
    IF word = <<>> THEN 0
    ELSE (1 + fi_freq_get(Head(word), default)) + SumRanks(Tail(word), default)

\* the score is the rational entropy / sum(...), kept as numerator and denominator
score_word(word) ==
    [num |-> Cardinality(SetOf(word)), den |-> SumRanks(word, 0)]

\* sorted(...) orders the list; the draw does not depend on the order
get_start_words(n) ==
    {all_words[i] : i \in {j \in DOMAIN all_words : Cardinality(SetOf(all_words[j])) = n}}

(***************************************************************************)
(* The game page, as far as get_rows, enter_word, clear_entry,             *)
(* check_win_state and new_game observe and drive it                       *)
(***************************************************************************)
\* the word list of the game itself: the guesses it accepts and the words
\* it may pick as the secret
sanuli_words ==
    { <<"t","a","k","s","i">>, <<"k","i","s","s","a">>, <<"k","a","s","s","i">>,
      <<"k","a","s","k","i">>, <<"s","a","k","k","i">>,
      <<"l","a","s","k","u","t">>, <<"k","i","s","s","a","t">>,
      <<"k","a","a","p","p","i">>, <<"k","a","t","s","o","s">> }

Secrets(n) == {w \in sanuli_words : Len(w) = n}

EmptyRow(n) == [x \in 1..n |-> Cell("", {"tile"})]
EmptyBoard(n) == [y \in 1..MaxRows |-> EmptyRow(n)]

\* the colour the game gives to tile i of a guess g against the secret s
TileState(g, s, i) ==
    LET open == {j \in DOMAIN g : g[j] # s[j]}
    IN  IF g[i] = s[i] THEN "correct"
        ELSE IF Cardinality({j \in open : s[j] = g[i]})
                  > Cardinality({j \in open : j < i /\ g[j] = g[i]})
             THEN "present"
             ELSE "absent"

GuessRow(g, s) == [i \in DOMAIN g |-> Cell(g[i], {"tile", TileState(g, s, i)})]

Played(b) == {y \in DOMAIN b : ~RowEmpty(b[y])}
RowWord(row) == [x \in DOMAIN row |-> row[x].content]

\* the texts check_win_state looks for
LoysitVisible(b, s) == \E y \in Played(b) : RowWord(b[y]) = s
SanaOliVisible(b, s) == ~LoysitVisible(b, s) /\ Played(b) = DOMAIN b

\* a click on a letter button: the letter goes to the next free tile of the row
RECURSIVE TypeWord(_, _, _)
TypeWord(e, w, n) ==
    IF w = <<>> THEN e
    ELSE TypeWord(IF Len(e) < n THEN Append(e, Head(w)) ELSE e, Tail(w), n)

\* a click on the backspace button
Backspace(e) == IF e = <<>> THEN e ELSE SubSeq(e, 1, Len(e) - 1)

RECURSIVE Backspaces(_, _)
Backspaces(e, k) == IF k = 0 THEN e ELSE Backspaces(Backspace(e), k - 1)

(***************************************************************************)
(* State                                                                   *)
(***************************************************************************)
VARIABLES
    pc,              \* the statement main()/play() is at
    n_letters,       \* the --n-letters argument
    words_attempted, \* play(): words_attempted
    rows,            \* play(): rows
    word_cands,      \* play(): word_cands
    weights,         \* play(): weights
    word,            \* play(): word
    ex,              \* main(): the exception caught last
    secret,          \* the game: the word to find
    board,           \* the game: the rows of tiles
    entry,           \* the game: the letters typed into the current row
    p_fn,            \* the function called on its own, if any
    p_n,             \* its n_letters argument
    p_rows,          \* its rows argument
    p_word,          \* its word argument
    p_done,          \* whether it has returned
    p_out            \* what it returned

vars == <<pc, n_letters, words_attempted, rows, word_cands, weights, word, ex,
          secret, board, entry, p_fn, p_n, p_rows, p_word, p_done, p_out>>

session_vars == <<pc, n_letters, words_attempted, rows, word_cands, weights,
                  word, ex, secret, board, entry>>
call_vars == <<p_fn, p_n, p_rows, p_word, p_done, p_out>>

None == [given |-> FALSE, of |-> <<>>]
NoException == [type |-> "", arg |-> <<>>]
NoResult == [raised |-> "", arg |-> <<>>, words |-> <<>>, locals |-> NoConstraints,
             score |-> [num |-> 0, den |-> 1]]

LenWords(n) == {all_words[i] : i \in {j \in DOMAIN all_words : Len(all_words[j]) = n}}

(***************************************************************************)
(* main() and play()                                                       *)
(*                                                                         *)
(* Line 222 of main() reads args.n_lettes, an attribute the parser does    *)
(* not define; the model takes n_letters to be the --n-letters argument,   *)
(* as line 224 expects, and starts at the loop of lines 237-247.           *)
(***************************************************************************)
Init ==
    /\ pc = "main"
    /\ n_letters \in LETTER_COUNT_CHOICES
    /\ words_attempted = {}
    /\ rows = <<>>
    /\ word_cands = {}
    /\ weights = None
    /\ word = <<>>
    /\ ex = NoException
    /\ secret \in Secrets(n_letters)
    /\ board = EmptyBoard(n_letters)
    /\ entry = <<>>
    /\ p_fn = "" /\ p_n = 0 /\ p_rows = <<>> /\ p_word = <<>>
    /\ p_done = FALSE /\ p_out = NoResult

\* variant: words_attempted outlives the call
PlayStart_KeepAttempted ==
    /\ pc = "main"
    /\ rows' = <<>>
    /\ word_cands' = {}
    /\ weights' = None
    /\ word' = <<>>
    /\ pc' = "get_rows"
    /\ UNCHANGED <<n_letters, words_attempted, ex, secret, board, entry>>
    /\ UNCHANGED call_vars

\* main() calls play(): a new frame, words_attempted = set()
PlayStart ==
    /\ pc = "main"
    /\ words_attempted' = {}
    /\ rows' = <<>>
    /\ word_cands' = {}
    /\ weights' = None
    /\ word' = <<>>
    /\ pc' = "get_rows"
    /\ UNCHANGED <<n_letters, ex, secret, board, entry>>
    /\ UNCHANGED call_vars

\* the exception check_win_state raises, if any
check_win_state(b, s) ==
    IF SanaOliVisible(b, s) THEN [type |-> "Loss", arg |-> <<>>]
    ELSE IF LoysitVisible(b, s) THEN [type |-> "Win", arg |-> <<>>]
    ELSE NoException

\* variant: a single candidate is not enough
no_word_cands_AtMostOne(cands) == Cardinality(cands) <= 1

\* if not word_cands
no_word_cands(cands) == cands = {}

\* one pass of the outer loop of play() up to the inner loop: fetch the rows,
\* build the pool, check the terminal texts, fall back to the whole corpus
Round ==
    /\ pc = "get_rows"
    /\ rows' = board
    /\ LET start == RowEmpty(board[1])
           r == infer_next_options(board, n_letters)
           cands == IF start THEN get_start_words(n_letters)
                    ELSE SetOf(r.words) \ words_attempted
           wts == IF start THEN None
                  ELSE [given |-> TRUE, of |-> [w \in cands |-> score_word(w)]]
           state == check_win_state(board, secret)
       IN  IF ~start /\ r.raised = "Win"
           THEN /\ ex' = [type |-> "Win", arg |-> r.arg]
                /\ pc' = "except"
                /\ weights' = None
                /\ UNCHANGED word_cands
           ELSE IF state # NoException
           THEN /\ ex' = state
                /\ pc' = "except"
                /\ word_cands' = cands
                /\ weights' = wts
           ELSE /\ pc' = "choose"
                /\ UNCHANGED ex
                /\ IF no_word_cands(cands)
                   THEN word_cands' = LenWords(n_letters) /\ weights' = None
                   ELSE word_cands' = cands /\ weights' = wts
    /\ UNCHANGED <<n_letters, words_attempted, word, secret, board, entry>>
    /\ UNCHANGED call_vars

\* the words random.choices(word_cands, weights=weights) can return
Choices(cands, wts) ==
    IF wts.given THEN {w \in cands : wts.of[w].num > 0} ELSE cands

\* word = random.choices(...)[0]; words_attempted.add(word)
Choose ==
    /\ pc = "choose"
    /\ \E w \in Choices(word_cands, weights) :
          /\ word' = w
          /\ words_attempted' = words_attempted \cup {w}
    /\ pc' = "enter"
    /\ UNCHANGED <<n_letters, rows, word_cands, weights, ex, secret, board, entry>>
    /\ UNCHANGED call_vars

\* enter_word(page, word): type the letters, click ARVAA; the game either
\* takes the row or shows "Ei sanulistalla"
EnterWord ==
    /\ pc = "enter"
    /\ LET typed == TypeWord(entry, word, n_letters)
           free == {y \in DOMAIN board : RowEmpty(board[y])}
       IN  IF typed \in sanuli_words /\ Len(typed) = n_letters /\ free # {}
           THEN /\ board' = [board EXCEPT
                               ![CHOOSE y \in free : \A z \in free : y <= z] =
                                   GuessRow(typed, secret)]
                /\ entry' = <<>>
                /\ pc' = "get_rows"
           ELSE /\ entry' = typed
                /\ pc' = "clear"
                /\ UNCHANGED board
    /\ UNCHANGED <<n_letters, words_attempted, rows, word_cands, weights, word,
                   ex, secret>>
    /\ UNCHANGED call_vars

\* variant: one click too few
clear_entry_OneShort(e, n) == Backspaces(e, n - 1)

\* clear_entry: n_letters clicks on the backspace button
clear_entry(e, n) == Backspaces(e, n)

\* clear_entry(page, n_letters=n_letters), then back to the top of the inner loop
ClearEntry ==
    /\ pc = "clear"
    /\ entry' = clear_entry(entry, n_letters)
    /\ pc' = "choose"
    /\ UNCHANGED <<n_letters, words_attempted, rows, word_cands, weights, word,
                   ex, secret, board>>
    /\ UNCHANGED call_vars

\* main(): except (Win, Loss), then new_game(page) and the next pass of the loop
NewGame ==
    /\ pc = "except"
    /\ board' = EmptyBoard(n_letters)
    /\ entry' = <<>>
    /\ secret' \in Secrets(n_letters)
    /\ pc' = "main"
    /\ UNCHANGED <<n_letters, words_attempted, rows, word_cands, weights, word, ex>>
    /\ UNCHANGED call_vars

Next == PlayStart \/ Round \/ Choose \/ EnterWord \/ ClearEntry \/ NewGame

Spec == Init /\ [][Next]_vars

(***************************************************************************)
(* infer_next_options and score_word called on their own, on any grid and  *)
(* any word within the bounds                                              *)
(***************************************************************************)
GridLetterOrder == <<"s","a","k","i","t","z","o","p">>
GridLetters ==
    {GridLetterOrder[i] : i \in {j \in DOMAIN GridLetterOrder : j <= NumGridLetters}}

ScoreLetterOrder == <<"a","z","t","q","x","i","s","k">>
ScoreLetters ==
    {ScoreLetterOrder[i] : i \in {j \in DOMAIN ScoreLetterOrder : j <= NumScoreLetters}}

TileStates == {"correct", "present", "absent"}
FilledCells == {Cell(l, {"tile", st}) : l \in GridLetters, st \in TileStates}

\* a grid with the cells of f filled in and every other cell empty
SparseGrid(n, f) ==
    [y \in 1..NumGridRows |->
        [x \in 1..n |-> IF <<y, x>> \in DOMAIN f THEN f[<<y, x>>] ELSE Cell("", {"tile"})]]

\* a grid whose first row is a guess with the colours col, the other rows empty
OneGuessGrid(n, g, col) ==
    [y \in 1..NumGridRows |->
        IF y = 1 THEN [x \in 1..n |-> Cell(g[x], {"tile", col[x]})] ELSE EmptyRow(n)]

InitCall ==
    /\ pc = "idle"
    /\ n_letters = 0
    /\ words_attempted = {}
    /\ rows = <<>>
    /\ word_cands = {}
    /\ weights = None
    /\ word = <<>>
    /\ ex = NoException
    /\ secret = <<>>
    /\ board = <<>>
    /\ entry = <<>>
    /\ p_done = FALSE
    /\ p_out = NoResult
    /\ \/ /\ p_fn = "infer_next_options"
          /\ p_word = <<>>
          /\ p_n \in LETTER_COUNT_CHOICES
          /\ \/ \E S \in {T \in SUBSET ((1..NumGridRows) \X (1..p_n)) :
                              Cardinality(T) <= MaxFilled} :
                   \E f \in [S -> FilledCells] : p_rows = SparseGrid(p_n, f)
             \/ \E g \in LenWords(p_n) :
                   \E col \in [1..p_n -> TileStates] : p_rows = OneGuessGrid(p_n, g, col)
       \/ /\ p_fn = "score_word"
          /\ p_rows = <<>>
          /\ p_n \in LETTER_COUNT_CHOICES
          /\ p_word \in [1..p_n -> ScoreLetters]

CallInfer ==
    /\ p_fn = "infer_next_options"
    /\ ~p_done
    /\ p_done' = TRUE
    /\ LET r == infer_next_options(p_rows, p_n)
       IN  p_out' = [NoResult EXCEPT !.raised = r.raised, !.arg = r.arg,
                                     !.words = r.words, !.locals = r.locals]
    /\ UNCHANGED <<p_fn, p_n, p_rows, p_word>>
    /\ UNCHANGED session_vars

CallScore ==
    /\ p_fn = "score_word"
    /\ ~p_done
    /\ p_done' = TRUE
    /\ p_out' = [NoResult EXCEPT !.score = score_word(p_word)]
    /\ UNCHANGED <<p_fn, p_n, p_rows, p_word>>
    /\ UNCHANGED session_vars

NextCall == CallInfer \/ CallScore

SpecCall == InitCall /\ [][NextCall]_vars

(***************************************************************************)
(* The constraints of a grid, stated cell by cell (columns counted from 1) *)
(***************************************************************************)
\* the cells the constraints are read from: the non-empty cells of the rows played
ReadCells(g) ==
    {yx \in UNION {{<<y, x>> : x \in DOMAIN g[y]} : y \in DOMAIN g} :
        ~RowEmpty(g[yx[1]]) /\ ~empty(g[yx[1]][yx[2]])}
CellAt(g, yx) == g[yx[1]][yx[2]]
IsCorrect(g, yx) == correct(CellAt(g, yx))
IsPresent(g, yx) == ~correct(CellAt(g, yx)) /\ present(CellAt(g, yx))
IsAbsent(g, yx) ==
    ~correct(CellAt(g, yx)) /\ ~present(CellAt(g, yx)) /\ absent(CellAt(g, yx))

\* the constraints of a grid: the letter required at each known column (that
\* of its latest Correct cell), the letters of the Present cells, the letters
\* of the Absent cells of each column, and the Absent letters left after
\* taking out the known and the present ones
GridConstraints(g) ==
    LET cells == ReadCells(g)
        isCorrect == {c \in cells : IsCorrect(g, c)}
        isPresent == {c \in cells : IsPresent(g, c)}
        isAbsent == {c \in cells : IsAbsent(g, c)}
        columns == {c[2] : c \in cells}
        known == [x \in {c[2] : c \in isCorrect} |->
                    LET ys == {c[1] : c \in {d \in isCorrect : d[2] = x}}
                    IN  g[CHOOSE y \in ys : \A z \in ys : z <= y][x].content]
        presentSet == {CellAt(g, c).content : c \in isPresent}
        absentSet == {CellAt(g, c).content : c \in isAbsent}
    IN  [known |-> known,
         knownLetters |-> {known[x] : x \in DOMAIN known},
         present |-> presentSet,
         absentAt |-> [x \in columns |->
                          {CellAt(g, c).content : c \in {d \in isAbsent : d[2] = x}}],
         absent |-> absentSet,
         forbidden |-> (absentSet \ {known[x] : x \in DOMAIN known}) \ presentSet]

knownColumns(g) == DOMAIN GridConstraints(g).known
knownLetters(g) == GridConstraints(g).knownLetters
presentLetters(g) == GridConstraints(g).present
absentLetters(g) == GridConstraints(g).absent

\* the four matching rules
Matches(w, k) ==
    /\ \A x \in DOMAIN k.known : w[x] = k.known[x]
    /\ \A x \in DOMAIN k.absentAt : w[x] \notin k.absentAt[x]
    /\ SetOf(w) \cap k.forbidden = {}
    /\ k.present \subseteq SetOf(w)

CandidateSet(g, n) ==
    LET k == GridConstraints(g) IN {w \in LenWords(n) : Matches(w, k)}

InferReturned == p_fn = "infer_next_options" /\ p_done

(***************************************************************************)
(* C1: when infer_next_options does not signal Win, the set of words it    *)
(* produces is exactly the set of corpus words of length N that satisfy    *)
(* the four matching rules.                                                *)
(***************************************************************************)
C1_FilterExact ==
    (InferReturned /\ p_out.raised = "")
        => SetOf(p_out.words) = CandidateSet(p_rows, p_n)

\* a grid with a Correct and an Absent cell for which the filter keeps some
\* words of the right length and drops others
C1_Witness ==
    /\ InferReturned /\ p_out.raised = ""
    /\ knownColumns(p_rows) # {}
    /\ absentLetters(p_rows) # {}
    /\ SetOf(p_out.words) # {}
    /\ SetOf(p_out.words) # LenWords(p_n)

(***************************************************************************)
(* C6: after the subtraction step the letters of knownIndexes,             *)
(* presentLetters and forbiddenLetters are pairwise disjoint.              *)
(***************************************************************************)
KnownValues(c) == {c.known_indexes[i] : i \in DOMAIN c.known_indexes}

C6_PairwiseDisjoint ==
    InferReturned =>
        LET c == p_out.locals
        IN  /\ c.forbidden_letters \cap KnownValues(c) = {}
            /\ c.forbidden_letters \cap c.present_letters = {}
            /\ KnownValues(c) \cap c.present_letters = {}

\* C6 as amended: forbiddenLetters is disjoint from the letters of
\* knownIndexes and from presentLetters (these two may share a letter).
C6_ForbiddenDisjoint ==
    InferReturned =>
        LET c == p_out.locals
        IN  /\ c.forbidden_letters \cap KnownValues(c) = {}
            /\ c.forbidden_letters \cap c.present_letters = {}

\* an Absent letter that is also Present, and another that is also Correct,
\* have both gone through the subtraction
C6_Witness ==
    /\ InferReturned
    /\ absentLetters(p_rows) \cap presentLetters(p_rows) # {}
    /\ absentLetters(p_rows) \cap knownLetters(p_rows) # {}
    /\ p_out.locals.forbidden_letters # {}

(***************************************************************************)
(* C7: score(word) is the number of distinct letters divided by the sum of *)
(* (1 + priorRank) over the letters, where a letter missing from the table *)
(* ranks at least as high as every letter of the table; so replacing a     *)
(* tabled letter by an untabled one not in the word never raises the score.*)
(***************************************************************************)
LeastFrequentRank == Len(fi_freq_letters) - 1
Untabled == sanuli_letters \ DOMAIN fi_freq
LessEq(a, b) == a.num * b.den <= b.num * a.den

C7_ScoreDefaultsToLeastFrequent ==
    (p_fn = "score_word" /\ p_done) =>
        /\ p_out.score.num = Cardinality(SetOf(p_word))
        /\ p_out.score.den >= SumRanks(p_word, LeastFrequentRank)
        /\ \A i \in DOMAIN p_word : \A u \in Untabled \ SetOf(p_word) :
              p_word[i] \notin Untabled
                  => LessEq(score_word([p_word EXCEPT ![i] = u]), p_out.score)

(***************************************************************************)
(* C10: under honest feedback the solution is never filtered out: if every *)
(* row played is honest feedback against a corpus word s of length N,      *)
(* infer_next_options signals Win with s or its output contains s.         *)
(***************************************************************************)
Honest(g, s) ==
    \A yx \in ReadCells(g) :
        LET l == CellAt(g, yx).content
        IN  /\ IsCorrect(g, yx) <=> l = s[yx[2]]
            /\ IsPresent(g, yx) => l \in SetOf(s)
            /\ IsAbsent(g, yx) =>
                  \/ l \notin SetOf(s)
                  \/ \E c \in ReadCells(g) :
                        /\ c[1] = yx[1]
                        /\ CellAt(g, c).content = l
                        /\ IsCorrect(g, c) \/ IsPresent(g, c)

C10_SolutionSurvives ==
    InferReturned =>
        \A s \in LenWords(p_n) :
            Honest(p_rows, s) =>
                \/ p_out.raised = "Win" /\ p_out.arg = s
                \/ p_out.raised = "" /\ s \in SetOf(p_out.words)

\* honest feedback in which a letter of the solution is Absent in one tile
\* and Correct in another, and the solution is among the words produced
C10_Witness ==
    /\ InferReturned
    /\ \E s \in LenWords(p_n) :
          /\ Honest(p_rows, s)
          /\ s \in SetOf(p_out.words)
          /\ absentLetters(p_rows) \cap knownLetters(p_rows) \cap SetOf(s) # {}

(***************************************************************************)
(* Properties of the rounds of play()                                      *)
(***************************************************************************)
StartState == rows # <<>> /\ RowEmpty(rows[1])
FullCorpusUniform == word_cands = LenWords(n_letters) /\ ~weights.given
\* the pool is the degenerate fallback: the whole corpus of the length, taken
\* because nothing else was left
FallbackInUse ==
    /\ FullCorpusUniform
    /\ StartState => get_start_words(n_letters) = {}
InnerLoop == {"choose", "enter", "clear"}

(***************************************************************************)
(* C2: the Selector never returns a word that is already in attemptedWords *)
(* unless the fallback pool is in use; a rejected guess is not offered     *)
(* again by the retry loop of the round.                                   *)
(***************************************************************************)
C2_NoRepeat ==
    [][(pc = "choose" /\ pc' = "enter" /\ ~FallbackInUse)
            => word' \notin words_attempted]_vars

(***************************************************************************)
(* C3: in the start state every word the Selector can draw is a corpus     *)
(* word of length N with N distinct letters, drawn without weights.        *)
(***************************************************************************)
C3_StartPoolIsStartWordSet ==
    (pc \in InnerLoop /\ StartState) =>
        /\ ~weights.given
        /\ \A w \in word_cands :
              w \in LenWords(n_letters) /\ Cardinality(SetOf(w)) = n_letters

(***************************************************************************)
(* C4: when knownIndexes covers all N columns the round ends in Win with   *)
(* the known letters read in column order; nothing is filtered, selected,  *)
(* added to attemptedWords or submitted.                                   *)
(***************************************************************************)
C4_WinDetected ==
    [][(pc = "get_rows" /\ knownColumns(board) = 1..n_letters) =>
            /\ pc' = "except"
            /\ ex' = [type |-> "Win",
                      arg |-> [x \in 1..n_letters |-> GridConstraints(board).known[x]]]
            /\ word_cands' = word_cands
            /\ word' = word
            /\ words_attempted' = words_attempted
            /\ board' = board /\ entry' = entry]_vars

\* Win was signalled with the solved word in the second round or later,
\* with words attempted before and no pool left from the round
C4_Witness ==
    /\ pc = "except"
    /\ knownColumns(rows) = 1..n_letters
    /\ ex = [type |-> "Win", arg |-> secret]
    /\ Cardinality(Played(rows)) >= 2
    /\ words_attempted # {}

(***************************************************************************)
(* C5: in every round the Selector draws from the full corpus of length N  *)
(* without weights iff CandidateSet minus attemptedWords is empty, and     *)
(* otherwise from exactly that set with score weights.                     *)
(***************************************************************************)
C5_EveryRound ==
    [][(pc = "get_rows" /\ pc' = "choose") =>
            LET cs == CandidateSet(board, n_letters) \ words_attempted
            IN  /\ rows' = board
                /\ (word_cands' = LenWords(n_letters) /\ ~weights'.given) <=> cs = {}
                /\ cs # {} =>
                      /\ word_cands' = cs
                      /\ weights'.given
                      /\ DOMAIN weights'.of = cs
                      /\ \A w \in cs : weights'.of[w] = score_word(w)]_vars

\* C5 as amended: the same, in every round that is not in the start state
\* (the first row has been played).
C5_InferenceRounds ==
    [][(pc = "get_rows" /\ pc' = "choose" /\ ~RowEmpty(board[1])) =>
            LET cs == CandidateSet(board, n_letters) \ words_attempted
            IN  /\ rows' = board
                /\ (word_cands' = LenWords(n_letters) /\ ~weights'.given) <=> cs = {}
                /\ cs # {} =>
                      /\ word_cands' = cs
                      /\ weights'.given
                      /\ DOMAIN weights'.of = cs
                      /\ \A w \in cs : weights'.of[w] = score_word(w)]_vars

\* the fallback pool is in use after a guess was played, and it offers a
\* word that has been attempted
C5_Witness ==
    /\ pc = "choose"
    /\ ~StartState
    /\ FallbackInUse
    /\ word_cands \cap words_attempted # {}

(***************************************************************************)
(* C8: a rejected guess stays in attemptedWords, the entry is cleared, the *)
(* grid, the constraints and the pool are left as they are and the         *)
(* Selector runs again; only an accepted guess ends the round.             *)
(***************************************************************************)
C8_RejectionLoop ==
    [][/\ (pc = "enter" /\ board' = board) =>
              /\ pc' = "clear"
              /\ word \in words_attempted'
              /\ UNCHANGED <<rows, word_cands, weights>>
       /\ pc = "clear" =>
              /\ pc' = "choose"
              /\ entry' = <<>>
              /\ word \in words_attempted'
              /\ UNCHANGED <<rows, word_cands, weights, words_attempted, board>>
       /\ (pc \in InnerLoop /\ pc' \notin InnerLoop) =>
              /\ pc = "enter"
              /\ \E y \in Played(board') \ Played(board) :
                    RowWord(board'[y]) = TypeWord(<<>>, word, n_letters)]_vars

\* back at the Selector after a guess that the game did not take
C8_Witness ==
    /\ pc = "choose"
    /\ word # <<>>
    /\ word \in words_attempted
    /\ entry = <<>>
    /\ \A y \in DOMAIN board : RowWord(board[y]) # TypeWord(<<>>, word, n_letters)

(***************************************************************************)
(* C9: within a game attemptedWords only grows and a word is in it before  *)
(* it is submitted; it is empty when a game that follows a Win or Loss     *)
(* starts.                                                                 *)
(***************************************************************************)
C9_AttemptedGrowsAndResets ==
    [][/\ pc # "main" => words_attempted \subseteq words_attempted'
       /\ pc' = "enter" => word' \in words_attempted'
       /\ pc' = "get_rows" /\ Played(board') = {} => words_attempted' = {}]_vars

\* the first fetch of a game that follows a Win or Loss: the board is empty
\* again and no word is attempted
C9_Witness ==
    /\ pc = "get_rows"
    /\ ex.type \in {"Win", "Loss"}
    /\ Played(board) = {}
    /\ words_attempted = {}

====
